---- MODULE Spec2Model ----
(***************************************************************************)
(* The server process supervisor of src-tauri/src/main.rs: the setup       *)
(* callback (start_server, wait_for_server, app.manage) and the            *)
(* on_window_event callback that takes the child out of the mutex-guarded  *)
(* ServerProcess slot and kills it.                                        *)
(*                                                                         *)
(* The setup callback is one sequential thread (pc).  Every CloseRequested *)
(* event gets its own run of the on_window_event closure (hpc[h]); the     *)
(* runs may interleave with each other and with setup, each step of the    *)
(* closure being one action.  The mutex is never poisoned in the model:    *)
(* nothing between lock() and the guard's drop can unwind.                 *)
(***************************************************************************)
EXTENDS Integers, Sequences, FiniteSets, TLC

\* ---------------------------------------------------------------- bounds
MaxClose == 2          \* CloseRequested events delivered in one run
MaxOther == 1          \* window events of any other kind
MaxDepth == 2          \* path segments of the working directory
MaxPid == 2            \* process ids the OS may hand out
MaxAttemptsArg == 8    \* max_attempts arguments tried in ProbeSpec: 0..MaxAttemptsArg

\* ------------------------------------------------------ program constants
MAX_ATTEMPTS == 60     \* wait_for_server("127.0.0.1", 3011, 60)

\* Option<T>: None is the empty tuple, Some(x) the one-element tuple.
None == <<>>
Some(x) == <<x>>
Unset == "unset"

Handlers == 1..MaxClose
Pids == 1..MaxPid
Segments == {"app", "src-tauri", "my-src-tauri"}

\* Absolute paths as sequences of segments; <<>> is the filesystem root.
Paths == UNION {[1..n -> Segments] : n \in 0..MaxDepth}

VARIABLES
    pc,            \* position of the setup callback
    setupResult,   \* what the setup callback returned: Unset, "Ok" or "Err"
    current_dir,   \* start_server: current_dir
    project_root,  \* start_server: project_root
    plan,          \* start_server: (cmd, args, working_dir)
    spawns,        \* number of Command::spawn calls made
    server,        \* setup: server, an Option<Child>
    ready,         \* setup: ready, None until wait_for_server has returned
    failure,       \* the step of start_server whose `?` returned None, "none" if none did
    server_js_exists, \* start_server: what server_path.exists() answered
    childState,    \* the spawned OS process: "none", "running" or "exited"
    wfsPc,         \* position inside wait_for_server
    max_attempts,  \* wait_for_server: max_attempts
    attempt,       \* wait_for_server: attempt
    connects,      \* outcome of each TcpStream::connect call of the running wait_for_server call
    sleeps,        \* thread::sleep calls of the running wait_for_server call
    wfsRet,        \* return value of wait_for_server, None until it returns
    managed,       \* whether a ServerProcess state is registered with the app
    slot,          \* the Option<Child> inside ServerProcess's mutex
    lockHolder,    \* handler holding the mutex, 0 when free
    hpc,           \* position of each on_window_event run
    hstate,        \* on_window_event: whether try_state returned Some(state)
    hchild,        \* on_window_event: child, the value guard.take() returned
    kills,         \* Child::kill calls made, in order
    others         \* window events other than CloseRequested handled so far

setupVars == <<pc, setupResult, current_dir, project_root, plan, spawns, server, ready,
               failure, server_js_exists, childState>>
wfsVars == <<wfsPc, max_attempts, attempt, connects, sleeps, wfsRet>>
stateVars == <<managed, slot, lockHolder>>
handlerVars == <<hpc, hstate, hchild, kills, others>>
vars == <<setupVars, wfsVars, stateVars, handlerVars>>

\* ------------------------------------------------------------ path helpers
\* Mutant: the last component is compared by its characters (str::ends_with).
ends_with_chars(path, seg) ==
    /\ Len(path) > 0
    /\ \/ path[Len(path)] = seg
       \/ seg = "src-tauri" /\ path[Len(path)] = "my-src-tauri"

\* Path::ends_with compares whole components, not characters.
ends_with(path, seg) == Len(path) > 0 /\ path[Len(path)] = seg

\* Path::parent: None for the root, otherwise the path without its last component.
parent(path) == IF Len(path) = 0 THEN None ELSE Some(SubSeq(path, 1, Len(path) - 1))

\* ------------------------------------------------------------------- Init
\* State when tauri calls the setup closure: nothing launched, no state managed.
SetupInit ==
    /\ pc = "current_dir"
    /\ setupResult = Unset
    /\ current_dir = None
    /\ project_root = None
    /\ plan = None
    /\ spawns = 0
    /\ server = None
    /\ ready = None
    /\ failure = "none"
    /\ server_js_exists = None
    /\ childState = "none"

WfsIdle ==
    /\ wfsPc = "idle"
    /\ max_attempts = 0
    /\ attempt = 0
    /\ connects = <<>>
    /\ sleeps = 0
    /\ wfsRet = None

HandlersInit ==
    /\ managed = FALSE
    /\ slot = None
    /\ lockHolder = 0
    /\ hpc = [h \in Handlers |-> "idle"]
    /\ hstate = [h \in Handlers |-> FALSE]
    /\ hchild = [h \in Handlers |-> None]
    /\ kills = <<>>
    /\ others = 0

Init == SetupInit /\ WfsIdle /\ HandlersInit

\* ----------------------------------------------------------- start_server
\* let current_dir = std::env::current_dir().ok()?;
\* Mutant: an unreadable working directory falls back to the empty path (unwrap_or_default).
CurrentDirErr_fallback ==
    /\ current_dir' = Some(<<>>)
    /\ pc' = "project_root"
    /\ UNCHANGED server

\* current_dir() is Err: `.ok()?` makes start_server return None.
CurrentDirErr ==
    /\ pc' = "is_some"
    /\ server' = None
    /\ UNCHANGED current_dir

StartServer_current_dir ==
    /\ pc = "current_dir"
    /\ \/ \E d \in Paths :
             /\ current_dir' = Some(d)
             /\ pc' = "project_root"
             /\ UNCHANGED <<server, failure>>
       \/ /\ failure' = "current_dir"
          /\ CurrentDirErr
    /\ UNCHANGED <<setupResult, project_root, plan, spawns, ready, server_js_exists, childState>>
    /\ UNCHANGED <<wfsVars, stateVars, handlerVars>>

\* let project_root = if current_dir.ends_with("src-tauri") { current_dir.parent()? } else { current_dir };
ProjectRoot(dir) == IF ends_with(dir, "src-tauri") THEN parent(dir) ELSE Some(dir)

StartServer_project_root ==
    /\ pc = "project_root"
    /\ LET root == ProjectRoot(current_dir[1]) IN
       IF root = None
       THEN /\ pc' = "is_some"         \* parent() is None: `?` returns None
            /\ server' = None
            /\ current_dir' = None
            /\ failure' = "parent"
            /\ UNCHANGED project_root
       ELSE /\ project_root' = root
            /\ pc' = "exists"
            /\ UNCHANGED <<server, current_dir, failure>>
    /\ UNCHANGED <<setupResult, plan, spawns, ready, server_js_exists, childState>>
    /\ UNCHANGED <<wfsVars, stateVars, handlerVars>>

\* Mutant: the two branches are the wrong way round.
LaunchPlan_inverted(root, exists) ==
    IF exists
    THEN [cmd |-> "npx", args |-> <<"tsx", "server.ts">>, working_dir |-> root]
    ELSE [cmd |-> "node", args |-> <<"dist/server.js">>, working_dir |-> root]

\* let (cmd, args, working_dir) = if server_path.exists() { node dist/server.js } else { npx tsx server.ts };
LaunchPlan(root, exists) ==
    IF exists
    THEN [cmd |-> "node", args |-> <<"dist/server.js">>, working_dir |-> root]
    ELSE [cmd |-> "npx", args |-> <<"tsx", "server.ts">>, working_dir |-> root]

StartServer_exists ==
    /\ pc = "exists"
    /\ \E exists \in BOOLEAN :
          /\ server_js_exists' = Some(exists)
          /\ plan' = Some(LaunchPlan(project_root[1], exists))
    /\ pc' = "spawn"
    /\ UNCHANGED <<setupResult, current_dir, project_root, spawns, server, ready, failure, childState>>
    /\ UNCHANGED <<wfsVars, stateVars, handlerVars>>

\* Mutant: a failed spawn is tried again.
SpawnReturn_retry(result) ==
    /\ server' = result
    /\ pc' = IF result = None THEN "spawn" ELSE "is_some"

\* let child = Command::new(cmd).args(&args).current_dir(&working_dir).spawn().ok()?; Some(child)
\* start_server returns either way and its locals go out of scope.
SpawnReturn(result) ==
    /\ server' = result
    /\ pc' = "is_some"

StartServer_spawn ==
    /\ pc = "spawn"
    /\ spawns' = spawns + 1
    /\ \/ /\ \E p \in Pids : SpawnReturn(Some(p))
          /\ childState' = "running"
          /\ UNCHANGED failure
       \/ /\ SpawnReturn(None)               \* spawn() is Err: `?` returns None
          /\ failure' = "spawn"
          /\ UNCHANGED childState
    /\ current_dir' = None
    /\ project_root' = None
    /\ plan' = None
    /\ server_js_exists' = None
    /\ UNCHANGED <<setupResult, ready>>
    /\ UNCHANGED <<wfsVars, stateVars, handlerVars>>

\* ------------------------------------------------------- wait_for_server
\* The call wait_for_server(host, port, n): the frame is set up with the
\* iterator of 1..=n before its first item.
wait_for_server_call(n) ==
    /\ wfsPc' = "for"
    /\ max_attempts' = n
    /\ attempt' = 0
    /\ connects' = <<>>
    /\ sleeps' = 0
    /\ wfsRet' = None

\* Mutant: the bound is tested against the item already yielded (one item too many).
RangeHasNext_overrun(last, upper) == last <= upper

\* Mutant: the exclusive range 1..max_attempts.
RangeHasNext_exclusive(last, upper) == last + 1 < upper

\* for attempt in 1..=max_attempts { ... } false
RangeHasNext(last, upper) == last + 1 <= upper

Wfs_for ==
    /\ wfsPc = "for"
    /\ IF RangeHasNext(attempt, max_attempts)
       THEN /\ attempt' = attempt + 1
            /\ wfsPc' = "connect"
            /\ UNCHANGED wfsRet
       ELSE /\ wfsPc' = "returned"
            /\ wfsRet' = Some(FALSE)
            /\ UNCHANGED attempt
    /\ UNCHANGED <<max_attempts, connects, sleeps>>
    /\ UNCHANGED <<setupVars, stateVars, handlerVars>>

\* Mutant: the result of connect is not acted on, the loop goes on to sleep.
ConnectOutcome_noReturn(ok) ==
    /\ wfsPc' = "sleep"
    /\ UNCHANGED wfsRet

\* if TcpStream::connect((host, port)).is_ok() { return true; }
ConnectOutcome(ok) ==
    IF ok
    THEN /\ wfsPc' = "returned"
         /\ wfsRet' = Some(TRUE)
    ELSE /\ wfsPc' = "sleep"
         /\ UNCHANGED wfsRet

Wfs_connect ==
    /\ wfsPc = "connect"
    /\ \E ok \in BOOLEAN :
          /\ connects' = Append(connects, ok)
          /\ ConnectOutcome(ok)
    /\ UNCHANGED <<max_attempts, attempt, sleeps>>
    /\ UNCHANGED <<setupVars, stateVars, handlerVars>>

\* thread::sleep(Duration::from_millis(500)); then the next iteration
Wfs_sleep ==
    /\ wfsPc = "sleep"
    /\ sleeps' = sleeps + 1
    /\ wfsPc' = "for"
    /\ UNCHANGED <<max_attempts, attempt, connects, wfsRet>>
    /\ UNCHANGED <<setupVars, stateVars, handlerVars>>

\* ------------------------------------------------------------------ setup
\* Mutant: the probe runs whether or not a child was spawned.
IsSomeBranch_always(srv) ==
    /\ pc' = "wait"
    /\ wait_for_server_call(MAX_ATTEMPTS)

\* Mutant: the handle is stored without waiting for the server.
IsSomeBranch_noProbe(srv) ==
    /\ pc' = "manage"
    /\ UNCHANGED wfsVars

\* if server.is_some() { let ready = wait_for_server("127.0.0.1", 3011, 60); ... } else { eprintln!(..) }
IsSomeBranch(srv) ==
    IF srv # None
    THEN /\ pc' = "wait"
         /\ wait_for_server_call(MAX_ATTEMPTS)
    ELSE /\ pc' = "manage"
         /\ UNCHANGED wfsVars

Setup_is_some ==
    /\ pc = "is_some"
    /\ IsSomeBranch(server)
    /\ UNCHANGED <<setupResult, current_dir, project_root, plan, spawns, server, ready>>
    /\ UNCHANGED <<failure, server_js_exists, childState>>
    /\ UNCHANGED <<stateVars, handlerVars>>

\* Mutant: a child that did not become ready is killed by setup.
Setup_wait_return_killOnTimeout ==
    /\ pc = "wait"
    /\ wfsPc = "returned"
    /\ ready' = wfsRet
    /\ kills' = IF wfsRet = Some(FALSE)
                THEN Append(kills, [by |-> 0, child |-> server, ok |-> TRUE])
                ELSE kills
    /\ pc' = "manage"
    /\ wfsPc' = "idle"
    /\ max_attempts' = 0
    /\ attempt' = 0
    /\ connects' = <<>>
    /\ sleeps' = 0
    /\ wfsRet' = None
    /\ UNCHANGED <<setupResult, current_dir, project_root, plan, spawns, server>>
    /\ UNCHANGED <<failure, server_js_exists, childState>>
    /\ UNCHANGED <<stateVars, hpc, hstate, hchild, others>>

\* let ready = <value returned>; if !ready { eprintln!(..) }; the callee's frame is gone.
Setup_wait_return ==
    /\ pc = "wait"
    /\ wfsPc = "returned"
    /\ ready' = wfsRet
    /\ pc' = "manage"
    /\ wfsPc' = "idle"
    /\ max_attempts' = 0
    /\ attempt' = 0
    /\ connects' = <<>>
    /\ sleeps' = 0
    /\ wfsRet' = None
    /\ UNCHANGED <<setupResult, current_dir, project_root, plan, spawns, server>>
    /\ UNCHANGED <<failure, server_js_exists, childState>>
    /\ UNCHANGED <<stateVars, handlerVars>>

\* Mutant: a missing child is propagated as the setup callback's error.
SetupReturn_err(srv) == IF srv = None THEN "Err" ELSE "Ok"

\* app.manage(ServerProcess(Mutex::new(server))); Ok(())
SetupReturn(srv) == "Ok"

Setup_manage ==
    /\ pc = "manage"
    /\ managed' = TRUE
    /\ slot' = server
    /\ setupResult' = SetupReturn(server)
    /\ pc' = "done"
    /\ UNCHANGED <<current_dir, project_root, plan, spawns, server, ready>>
    /\ UNCHANGED <<failure, server_js_exists, childState>>
    /\ UNCHANGED <<lockHolder, wfsVars, handlerVars>>

\* -------------------------------------------------------- on_window_event
\* Events are delivered in order: the h-th CloseRequested event is handled by run h.
\* if let tauri::WindowEvent::CloseRequested { .. } = event {
CloseRequested(h) ==
    /\ hpc[h] = "idle"
    /\ IF h = 1 THEN TRUE ELSE hpc[h - 1] # "idle"
    /\ hpc' = [hpc EXCEPT ![h] = "try_state"]
    /\ UNCHANGED <<hstate, hchild, kills, others>>
    /\ UNCHANGED <<setupVars, wfsVars, stateVars>>

\* Any other window event: the `if let` does not match and the closure returns.
OtherWindowEvent ==
    /\ others < MaxOther
    /\ others' = others + 1
    /\ UNCHANGED <<hpc, hstate, hchild, kills>>
    /\ UNCHANGED <<setupVars, wfsVars, stateVars>>

\* if let Some(state) = window.try_state::<ServerProcess>() {
TryState(h) ==
    /\ hpc[h] = "try_state"
    /\ hstate' = [hstate EXCEPT ![h] = managed]
    /\ hpc' = [hpc EXCEPT ![h] = IF managed THEN "lock" ELSE "done"]
    /\ UNCHANGED <<hchild, kills, others>>
    /\ UNCHANGED <<setupVars, wfsVars, stateVars>>

\* if let Ok(mut guard) = state.0.lock() {     (blocks while another run holds it)
Lock(h) ==
    /\ hpc[h] = "lock"
    /\ lockHolder = 0
    /\ lockHolder' = h
    /\ hpc' = [hpc EXCEPT ![h] = "take"]
    /\ UNCHANGED <<managed, slot, hstate, hchild, kills, others>>
    /\ UNCHANGED <<setupVars, wfsVars>>

\* Mutant: the slot is cleared in place (*guard = None) and the child is never bound.
Take_drop(h) ==
    /\ hpc[h] = "take"
    /\ lockHolder = h
    /\ slot' = None
    /\ hpc' = [hpc EXCEPT ![h] = "unlock"]
    /\ UNCHANGED <<managed, lockHolder, hstate, hchild, kills, others>>
    /\ UNCHANGED <<setupVars, wfsVars>>

\* Mutant: kill in place (guard.as_mut()) instead of moving the child out.
Take_peek(h) ==
    /\ hpc[h] = "take"
    /\ lockHolder = h
    /\ hchild' = [hchild EXCEPT ![h] = slot]
    /\ hpc' = [hpc EXCEPT ![h] = IF slot # None THEN "kill" ELSE "unlock"]
    /\ UNCHANGED <<managed, slot, lockHolder, hstate, kills, others>>
    /\ UNCHANGED <<setupVars, wfsVars>>

\* Mutant: the Option is not matched, the kill is issued whatever take() returned.
Take_unchecked(h) ==
    /\ hpc[h] = "take"
    /\ lockHolder = h
    /\ hchild' = [hchild EXCEPT ![h] = slot]
    /\ slot' = None
    /\ hpc' = [hpc EXCEPT ![h] = "kill"]
    /\ UNCHANGED <<managed, lockHolder, hstate, kills, others>>
    /\ UNCHANGED <<setupVars, wfsVars>>

\* if let Some(mut child) = guard.take() {     (Option::take leaves None behind)
Take(h) ==
    /\ hpc[h] = "take"
    /\ lockHolder = h
    /\ hchild' = [hchild EXCEPT ![h] = slot]
    /\ slot' = None
    /\ hpc' = [hpc EXCEPT ![h] = IF slot # None THEN "kill" ELSE "unlock"]
    /\ UNCHANGED <<managed, lockHolder, hstate, kills, others>>
    /\ UNCHANGED <<setupVars, wfsVars>>

\* Mutant: a child whose kill failed is put back into the slot for a later close.
Kill_retryLater(h) ==
    /\ hpc[h] = "kill"
    /\ \E ok \in BOOLEAN :
          /\ kills' = Append(kills, [by |-> h, child |-> hchild[h], ok |-> ok])
          /\ slot' = IF ok THEN slot ELSE hchild[h]
    /\ hpc' = [hpc EXCEPT ![h] = "unlock"]
    /\ UNCHANGED <<managed, lockHolder, hstate, hchild, others>>
    /\ UNCHANGED <<setupVars, wfsVars>>

\* println!("Stopping server..."); let _ = child.kill();     (the Result is discarded)
Kill(h) ==
    /\ hpc[h] = "kill"
    /\ \E ok \in BOOLEAN :
          kills' = Append(kills, [by |-> h, child |-> hchild[h], ok |-> ok])
    /\ hpc' = [hpc EXCEPT ![h] = "unlock"]
    /\ UNCHANGED <<hstate, hchild, others>>
    /\ UNCHANGED <<setupVars, wfsVars, stateVars>>

\* Mutant: the child is put back into the slot before the guard is dropped.
Unlock_putback(h) ==
    /\ hpc[h] = "unlock"
    /\ lockHolder = h
    /\ lockHolder' = 0
    /\ slot' = hchild[h]
    /\ hchild' = [hchild EXCEPT ![h] = None]
    /\ hpc' = [hpc EXCEPT ![h] = "done"]
    /\ UNCHANGED <<managed, hstate, kills, others>>
    /\ UNCHANGED <<setupVars, wfsVars>>

\* Mutant: the handler waits for the child to exit (child.wait()) before returning.
Unlock_waits(h) ==
    /\ hpc[h] = "unlock"
    /\ lockHolder = h
    /\ hchild[h] # None => childState = "exited"
    /\ lockHolder' = 0
    /\ hchild' = [hchild EXCEPT ![h] = None]
    /\ hpc' = [hpc EXCEPT ![h] = "done"]
    /\ UNCHANGED <<managed, slot, hstate, kills, others>>
    /\ UNCHANGED <<setupVars, wfsVars>>

\* End of the blocks: child and guard are dropped (the mutex is released), the closure returns.
Unlock(h) ==
    /\ hpc[h] = "unlock"
    /\ lockHolder = h
    /\ lockHolder' = 0
    /\ hchild' = [hchild EXCEPT ![h] = None]
    /\ hpc' = [hpc EXCEPT ![h] = "done"]
    /\ UNCHANGED <<managed, slot, hstate, kills, others>>
    /\ UNCHANGED <<setupVars, wfsVars>>

\* ------------------------------------------------------------ the child
\* The spawned process is independent of the supervisor: it may exit at any
\* time, killed or not, or never.  Nothing in main.rs waits for it.
ChildExit ==
    /\ childState = "running"
    /\ childState' = "exited"
    /\ UNCHANGED <<pc, setupResult, current_dir, project_root, plan, spawns, server, ready>>
    /\ UNCHANGED <<failure, server_js_exists>>
    /\ UNCHANGED <<wfsVars, stateVars, handlerVars>>

\* ------------------------------------------------------------------- Spec
Setup ==
    \/ StartServer_current_dir
    \/ StartServer_project_root
    \/ StartServer_exists
    \/ StartServer_spawn
    \/ Setup_is_some
    \/ Setup_wait_return
    \/ Setup_manage

WaitForServer == Wfs_for \/ Wfs_connect \/ Wfs_sleep

OnWindowEvent(h) ==
    \/ CloseRequested(h)
    \/ TryState(h)
    \/ Lock(h)
    \/ Take(h)
    \/ Kill(h)
    \/ Unlock(h)

Next ==
    \/ Setup
    \/ WaitForServer
    \/ \E h \in Handlers : OnWindowEvent(h)
    \/ OtherWindowEvent
    \/ ChildExit

Spec == Init /\ [][Next]_vars

\* The setup callback runs to its end once called, and a run of the window-event
\* closure that has started keeps going; nothing makes a window event arrive.
HandlerStep(h) == TryState(h) \/ Lock(h) \/ Take(h) \/ Kill(h) \/ Unlock(h)

Fairness ==
    /\ WF_vars(Setup \/ WaitForServer)
    /\ \A h \in Handlers : WF_vars(HandlerStep(h))

FairSpec == Spec /\ Fairness

\* A wait_for_server call on its own, for every max_attempts argument in
\* 0..MaxAttemptsArg and for the argument setup passes.
ProbeInit ==
    /\ pc = "probe"
    /\ setupResult = Unset
    /\ current_dir = None
    /\ project_root = None
    /\ plan = None
    /\ spawns = 0
    /\ server = None
    /\ ready = None
    /\ failure = "none"
    /\ server_js_exists = None
    /\ childState = "none"
    /\ HandlersInit
    /\ wfsPc = "for"
    /\ max_attempts \in (0..MaxAttemptsArg) \cup {MAX_ATTEMPTS}
    /\ attempt = 0
    /\ connects = <<>>
    /\ sleeps = 0
    /\ wfsRet = None

ProbeNext == Wfs_for \/ Wfs_connect \/ Wfs_sleep

ProbeSpec == ProbeInit /\ [][ProbeNext]_vars

\* ================================================================= claims
KillsOf(c) == {i \in 1..Len(kills) : kills[i].child = c}
OtherRunsIdle(h) == \A g \in Handlers \ {h} : hpc[g] = "idle"

\* C1: when setup has finished with a spawned child in the ServerProcess slot
\* and the first CloseRequested event is then handled (its try_state finds the
\* state), at the handler's return the slot is None and exactly one kill has
\* been sent, to that child; with no other close event around, it is this
\* handler that sent it.
C1_FirstCloseKillsChild ==
    (hpc[1] = "done" /\ hstate[1] /\ server # None) =>
        /\ slot = None
        /\ Len(kills) = 1
        /\ kills[1].child = server
        /\ OtherRunsIdle(1) => kills[1].by = 1

C1_Witness ==
    /\ pc = "done"
    /\ server # None
    /\ hpc[1] = "done"
    /\ hstate[1]
    /\ OtherRunsIdle(1)
    /\ Len(kills) = 1
    /\ kills[1].by = 1
    /\ slot = None

\* C2: there is no reachable state in which setup has finished, a
\* CloseRequested event has been handled to the end, and the spawned child
\* has never been sent a kill.
C2_HandleNeverLost ==
    ~ /\ pc = "done"
      /\ \E h \in Handlers : hpc[h] = "done"
      /\ server # None
      /\ KillsOf(server) = {}

\* C3: the child is sent a kill at most once, by the one handler that took it
\* out of the slot; no other handler is ever at, or past, a kill.
Killers == {h \in Handlers : hpc[h] = "kill" \/ \E i \in 1..Len(kills) : kills[i].by = h}

C3_KillAtMostOnce ==
    /\ Len(kills) <= 1
    /\ Cardinality(Killers) <= 1
    /\ \A i \in 1..Len(kills) : kills[i].child = server /\ server # None

C3_Witness ==
    /\ \A h \in Handlers : hpc[h] = "done" /\ hstate[h]
    /\ Len(kills) = 1

\* C4: a close handler that finds no handle (try_state finds no registered
\* state, or take() finds None in the slot) issues no kill, leaves the
\* registered state and the slot as they were, and returns.
C4_Step(h) ==
    /\ (hpc[h] = "try_state" /\ ~managed /\ hpc'[h] # hpc[h]) =>
           /\ hpc'[h] = "done"
           /\ kills' = kills /\ slot' = slot /\ managed' = managed /\ lockHolder' = lockHolder
    /\ (hpc[h] = "take" /\ slot = None /\ hpc'[h] # hpc[h]) =>
           /\ hpc'[h] = "unlock"
           /\ kills' = kills /\ slot' = slot /\ managed' = managed
    /\ (hpc[h] = "unlock" /\ hchild[h] = None /\ hpc'[h] # hpc[h]) =>
           /\ hpc'[h] = "done"
           /\ kills' = kills /\ slot' = slot /\ managed' = managed /\ lockHolder' = 0

C4_CloseWithoutHandleIsNoOp == [][\A h \in Handlers : C4_Step(h)]_vars

C4_Witness ==
    /\ pc = "done"
    /\ server = None
    /\ \E g, h \in Handlers :
          /\ hpc[g] = "done" /\ ~hstate[g]
          /\ hpc[h] = "done" /\ hstate[h]
    /\ kills = <<>>

\* C5: at most one process handle is held (in the slot or by a handler that
\* took it); the slot is populated only by the one registration of the
\* state, and once the registered slot is empty it stays empty.
HandlesHeld ==
    (IF slot # None THEN 1 ELSE 0) + Cardinality({h \in Handlers : hchild[h] # None})

C5_SlotStep ==
    /\ managed => managed'
    /\ (slot = None /\ slot' # None) => (~managed /\ managed')
    /\ (managed /\ slot = None) => slot' = None
    /\ HandlesHeld' <= 1

C5_SlotLifecycle == HandlesHeld <= 1 /\ [][C5_SlotStep]_vars

C5_Witness ==
    /\ managed
    /\ slot = None
    /\ server # None
    /\ \A h \in Handlers : hpc[h] = "done" /\ hstate[h]

\* ------------------------------------------------------- readiness probe
Failed == {i \in 1..Len(connects) : ~connects[i]}
NoneConnected == \A i \in 1..Len(connects) : ~connects[i]

\* C6 (as stated): for max_attempts >= 1 there are at most max_attempts
\* connection attempts and at most max_attempts - 1 sleeps.
C6_AtMostMaxMinusOneSleeps ==
    max_attempts >= 1 => (Len(connects) <= max_attempts /\ sleeps <= max_attempts - 1)

\* C6 (amended): at most max_attempts connection attempts and at most
\* max_attempts sleeps; one sleep follows every failed attempt, the final one
\* included, and none follows a successful attempt.
C6_SleepAfterEveryFailedAttempt ==
    /\ Len(connects) <= max_attempts
    /\ sleeps <= max_attempts
    /\ sleeps = Cardinality(Failed) - (IF wfsPc = "sleep" THEN 1 ELSE 0)
    /\ (wfsPc = "returned" /\ wfsRet = Some(FALSE)) =>
           (Len(connects) = max_attempts /\ sleeps = max_attempts)

C6_Witness ==
    /\ max_attempts = MAX_ATTEMPTS
    /\ wfsPc = "returned"
    /\ wfsRet = Some(FALSE)
    /\ NoneConnected
    /\ sleeps = MAX_ATTEMPTS

\* C7: when attempt k is the first connect that succeeds, wait_for_server has
\* returned true after exactly k attempts and k - 1 sleeps, and attempt k
\* stays the last one.
C7_ReturnsAtFirstSuccess ==
    \A k \in 1..Len(connects) :
        connects[k] =>
            /\ k = Len(connects)
            /\ k = attempt
            /\ k <= max_attempts
            /\ wfsPc = "returned"
            /\ wfsRet = Some(TRUE)
            /\ sleeps = k - 1

C7_Witness ==
    /\ max_attempts = MAX_ATTEMPTS
    /\ Len(connects) = 3
    /\ connects[3]
    /\ sleeps = 2
    /\ wfsPc = "returned"
    /\ wfsRet = Some(TRUE)

\* C8: with no successful connect, wait_for_server returns false after exactly
\* 60 attempts, and setup then completes with Ok, the spawned handle being put
\* into the registered state; setup always reaches its end.
C8_State ==
    /\ NoneConnected => Len(connects) <= MAX_ATTEMPTS
    /\ (wfsPc = "returned" /\ NoneConnected) =>
           (Len(connects) = MAX_ATTEMPTS /\ wfsRet = Some(FALSE))
    /\ (pc = "done" /\ ready = Some(FALSE)) =>
           (setupResult = "Ok" /\ managed /\ server # None)

C8_Step ==
    (pc = "manage" /\ ready = Some(FALSE) /\ pc' # pc) =>
        (pc' = "done" /\ managed' /\ slot' = server /\ server # None)

C8_ExhaustedProbeStillCompletes ==
    /\ []C8_State
    /\ [][C8_Step]_vars
    /\ (pc = "wait") ~> (pc = "done")

C8_Witness ==
    /\ pc = "done"
    /\ ready = Some(FALSE)
    /\ setupResult = "Ok"
    /\ slot = server
    /\ slot # None

\* C9: whatever fails, the setup callback returns Ok (never an error) and
\* always reaches its return, and every close handler that starts runs to its
\* end.
C9_State ==
    /\ setupResult \in {Unset, "Ok"}
    /\ pc = "done" <=> setupResult = "Ok"

C9_NoErrorAbortsHost ==
    /\ []C9_State
    /\ <>(pc = "done")
    /\ \A h \in Handlers : (hpc[h] = "try_state") ~> (hpc[h] = "done")

C9_Witness ==
    /\ pc = "done"
    /\ setupResult = "Ok"
    /\ ready = Some(FALSE)
    /\ \A h \in Handlers : hpc[h] = "done"
    /\ \E i \in 1..Len(kills) : ~kills[i].ok

\* C10: after a failed spawn start_server has returned None, no connection
\* attempt is ever made, no handle is ever in the slot or in a handler's
\* hands, and no kill is ever issued.
SpawnFailed == spawns = 1 /\ server = None /\ pc \in {"is_some", "manage", "done"}

C10_SpawnFailureSkipsProbe ==
    SpawnFailed =>
        /\ wfsPc = "idle"
        /\ connects = <<>>
        /\ ready = None
        /\ slot = None
        /\ HandlesHeld = 0
        /\ kills = <<>>

C10_Witness ==
    /\ SpawnFailed
    /\ pc = "done"
    /\ \E h \in Handlers : hpc[h] = "done" /\ hstate[h]

\* ------------------------------------------------------- launch resolver
\* C11: when the plan is handed to spawn, it is the production invocation
\* (node, [dist/server.js]) if dist/server.js was found under the project
\* root and the development invocation (npx, [tsx, server.ts]) if not; the
\* working directory is the project root either way.
C11_PlanFollowsArtifact ==
    pc = "spawn" =>
        /\ plan # None /\ server_js_exists # None /\ project_root # None
        /\ server_js_exists[1] =>
               (plan[1].cmd = "node" /\ plan[1].args = <<"dist/server.js">>)
        /\ ~server_js_exists[1] =>
               (plan[1].cmd = "npx" /\ plan[1].args = <<"tsx", "server.ts">>)
        /\ plan[1].working_dir = project_root[1]

C11_Witness ==
    /\ pc = "spawn"
    /\ server_js_exists = Some(TRUE)
    /\ plan[1].cmd = "node"
    /\ plan[1].working_dir = <<"app">>

\* C12: the resolved project root is the working directory without its last
\* segment when that segment is src-tauri, and the working directory itself
\* otherwise.
C12_ProjectRoot ==
    pc \in {"exists", "spawn"} =>
        LET d == current_dir[1]
            n == Len(d)
        IN  IF n > 0 /\ d[n] = "src-tauri"
            THEN project_root = Some([i \in 1..(n - 1) |-> d[i]])
            ELSE project_root = Some(d)

C12_Witness ==
    /\ pc = "exists"
    /\ current_dir = Some(<<"app", "src-tauri">>)
    /\ project_root = Some(<<"app">>)

\* C13: spawn is called at most once in a run; the plan is built once, before
\* that call, and is gone after it; nothing else changes the spawn count.
C13_State ==
    /\ spawns <= 1
    /\ spawns = 1 => plan = None

C13_Step ==
    /\ (plan = None /\ plan' # None) => (pc = "exists" /\ spawns = 0)
    /\ spawns' # spawns => (pc = "spawn" /\ plan # None /\ spawns' = spawns + 1)

C13_SpawnAtMostOnce == []C13_State /\ [][C13_Step]_vars

C13_Witness ==
    /\ spawns = 1
    /\ pc = "done"
    /\ ready = Some(FALSE)
    /\ \A h \in Handlers : hpc[h] = "done" /\ hstate[h]

\* C14: when the working directory cannot be read (or the parent of a
\* src-tauri directory cannot be resolved) start_server returns None at once:
\* spawn is never called, no connection attempt is made, and setup goes on to
\* register an empty state and return Ok.
ResolverFailed == failure \in {"current_dir", "parent"}

C14_ResolverFailureSkipsLaunch ==
    ResolverFailed =>
        /\ pc \in {"is_some", "manage", "done"}
        /\ spawns = 0
        /\ server = None
        /\ childState = "none"
        /\ wfsPc = "idle"
        /\ connects = <<>>
        /\ ready = None
        /\ pc = "done" => (setupResult = "Ok" /\ managed /\ slot = None)

C14_Witness ==
    /\ failure = "current_dir"
    /\ pc = "done"
    /\ spawns = 0
    /\ managed

\* -------------------------------------------------- ordering and shutdown
\* C15: resolve, spawn, probe, store happen in that order: spawn is called
\* with a resolved plan, a connection attempt is made only after spawn has
\* returned a handle, and the state is registered only after wait_for_server
\* has returned, ready or not.
C15_StartupOrder ==
    /\ pc = "spawn" => (project_root # None /\ plan # None /\ spawns = 0)
    /\ (wfsPc # "idle" \/ connects # <<>>) =>
           (pc = "wait" /\ spawns = 1 /\ server # None /\ ~managed)
    /\ ready # None => (spawns = 1 /\ server # None)
    /\ managed =>
           /\ pc = "done"
           /\ wfsPc = "idle"
           /\ server # None => ready # None

C15_Witness ==
    /\ managed
    /\ spawns = 1
    /\ ready = Some(TRUE)
    /\ slot = server
    /\ slot # None

\* C16: after a kill that failed, the slot is empty, the handler that issued
\* it is past the kill, and no other handler holds the child or issues a
\* second kill.
C16_FailedKillIsIgnored ==
    \A i \in 1..Len(kills) :
        ~kills[i].ok =>
            /\ slot = None
            /\ Len(kills) = 1
            /\ hpc[kills[i].by] \in {"unlock", "done"}
            /\ \A g \in Handlers \ {kills[i].by} : hpc[g] # "kill" /\ hchild[g] = None

C16_Witness ==
    /\ Len(kills) = 1
    /\ ~kills[1].ok
    /\ \A h \in Handlers : hpc[h] = "done" /\ hstate[h]
    /\ slot = None

\* C17: a handler that is about to issue the kill always reaches its end with
\* the mutex released, in every run, those where the child never exits
\* included.
C17_KillIsFireAndForget ==
    \A h \in Handlers : (hpc[h] = "kill") ~> (hpc[h] = "done" /\ lockHolder # h)

C17_Witness ==
    /\ childState = "running"
    /\ Len(kills) = 1
    /\ hpc[kills[1].by] = "done"
    /\ lockHolder = 0

\* C18: every kill is issued by a run of the close handler; while no
\* CloseRequested event has been handled no kill has been issued, whatever
\* the readiness probe returned.
C18_KillOnlyOnClose ==
    /\ \A i \in 1..Len(kills) :
           /\ kills[i].by \in Handlers
           /\ hpc[kills[i].by] \in {"unlock", "done"}
    /\ (\A h \in Handlers : hpc[h] = "idle") => kills = <<>>

C18_Witness ==
    /\ pc = "done"
    /\ ready = Some(FALSE)
    /\ others > 0
    /\ \A h \in Handlers : hpc[h] = "idle"
    /\ kills = <<>>
    /\ slot # None

====
